---- MODULE Spec2Model ----
(***************************************************************************)
(* A model of the SpookyID directive tooling:                              *)
(*   - check_rules.py           (rule enforcement checker)                 *)
(*   - verify_documentation.py  (documentation accuracy verifier)          *)
(*   - generate_checkpoint.py / restore_checkpoint.py (checkpoint store)   *)
(*   - bootstrap_context.py     (bootstrap verifier)                       *)
(*   - scripts/issue_admin_credential.py (admin credential issuance)       *)
(*                                                                         *)
(* Text is modelled at the level the regular expressions of the sources    *)
(* look at it.  A source line is a record naming the one pattern it holds  *)
(* (a .route("...") call, a rule reference with or without the word        *)
(* "Rule" before it, a "Chain N" mention, or nothing of interest).  A      *)
(* specification document is the set of its header lines.                  *)
(***************************************************************************)
EXTENDS Integers, Sequences, FiniteSets, TLC

VARIABLES
    \* ---- the file system the consistency tools read (never written) ----
    tree,           \* backend/**/*.rs : path -> [kind, lines]
    spec_md,        \* SPEC.md        : [exists, lines], lines the set of its lines
    rules_md,       \* RULES.md       : [exists, lines]
    chains_md,      \* CHAINS.md      : [exists, lines]
    \* ---- check_rules.py main() ----
    cr_pc,          \* position in main
    code_rules,     \* dict rule_id -> list of (file, line)
    defined_rules,  \* dict rule_id -> description
    cr_todo,        \* what is left of sorted(code_rules.keys())
    valid_rules,    \* list
    missing_rules,  \* list
    cr_exit,        \* process exit code (-1: still running)
    \* ---- verify_documentation.py main() ----
    vd_pc,          \* position in main
    issues_found,   \* the counter of main
    vd_exit,        \* process exit code (-1: still running)
    \* ---- the checkpoint store: generate_checkpoint.py, restore_checkpoint.py ----
    now,            \* the clock, in ticks
    progress_md,    \* directives/progress.md : [exists, lines]
    cp_dir,         \* whether directives/checkpoints exists
    cp_files,       \* the files of directives/checkpoints : set of [name, content, mtime]
    created,        \* history: the file names generate_checkpoint returned, oldest first
    last_create,    \* history: the arguments and results of the latest generate_checkpoint
    rs_out,         \* what the latest restore_checkpoint run did: [mode, name, exit, shown, listed]
    \* ---- bootstrap_context.py: what it runs on ----
    fix_mode,       \* "--fix" in sys.argv
    root_fs,        \* the paths below the project root that exist
    environ,        \* os.environ : variable name -> value ("" when not set)
    \* ---- bootstrap_context.py main() ----
    bc_pc,          \* position in main
    bc_issues_found,\* the counter issues_found of main
    tool_result,    \* what each "<command> --version" process did
    missing_files,  \* list, from check_critical_files
    found_vars,     \* list, from check_environment_variables
    missing_vars,   \* list, from check_environment_variables
    missing_bins,   \* list, from check_built_binaries
    build_result,   \* what the cargo build of --fix did
    docs_result,    \* what the delegated verify_documentation.py run did
    stages_run,     \* history: the stages of main that were executed
    bc_exit,        \* process exit code (-1: still running)
    \* ---- check_environment_variables() called on its own ----
    env_out,        \* [called, found, missing]
    \* ---- extract_rules_from_code() of check_rules.py called again and again ----
    ex_runs,        \* history: per call, the tree it ran on and what it returned
    \* ---- scripts/issue_admin_credential.py: what it runs on ----
    card_present,   \* the JCOP card is in the reader
    gp_jar,         \* gp.jar exists in the working directory
    backend_dir,    \* ../SpookyID_stack/backend exists
    out_file,       \* admin_credential.json exists
    \* ---- scripts/issue_admin_credential.py main() ----
    iac_pc,         \* position in main
    polls,          \* the calls of run_gp_info made so far
    card_info,      \* what the latest run_gp_info returned: TRUE for the card's info, FALSE for None
    signer_calls,   \* history: the runs of the signing command
    iac_exit,       \* process exit code (-1: still running)
    \* ---- two processes running generate_checkpoint() at once ----
    mk_pc,          \* process -> position in generate_checkpoint
    mk_exists,      \* history: process -> os.mkdir answered FileExistsError
    \* ---- read_progress_md() called on its own ----
    rp_out          \* [called, state]

consistencyInputs == <<tree, spec_md, rules_md, chains_md>>
crVars == <<cr_pc, code_rules, defined_rules, cr_todo, valid_rules, missing_rules, cr_exit>>
vdVars == <<vd_pc, issues_found, vd_exit>>
cpVars == <<now, progress_md, cp_dir, cp_files, created, last_create, rs_out>>
bcInputs == <<fix_mode, root_fs, environ>>
bcVars == <<bc_pc, bc_issues_found, tool_result, missing_files, found_vars, missing_vars,
            missing_bins, build_result, docs_result, stages_run, bc_exit>>
iacInputs == <<card_present, gp_jar, backend_dir, out_file>>
iacVars == <<iac_pc, polls, card_info, signer_calls, iac_exit>>
mkVars == <<mk_pc, mk_exists>>
moreVars == <<ex_runs, iacInputs, iacVars, mkVars, rp_out>>
toolVars == <<bcInputs, bcVars, env_out, moreVars>>
vars == <<consistencyInputs, crVars, vdVars, cpVars, toolVars>>

(***************************************************************************)
(* Bounds and alphabets.                                                   *)
(***************************************************************************)
MaxLines == 2

\* A document that is not on disk, and one holding the lines ls.
Missing == [exists |-> FALSE, lines |-> {}]
Doc(ls) == [exists |-> TRUE, lines |-> ls]
Docs(lines) == {Missing} \cup {Doc(ls) : ls \in SUBSET lines}

RuleIds == {"R-AUTH-001", "R-AUTH-002"}
\* sorted() on rule ids: position in this list
RuleOrder == <<"R-AUTH-001", "R-AUTH-002">>
RoutePaths == {"/health", "/api/oidc/token"}

\* A line of Rust source, by the pattern it holds.
RouteLine(p) == [route |-> p]                   \* .route("p", ...)
RuleLine(id, word) == [rule |-> id, word |-> word]  \* "Rule R-X-n" (word) or bare "R-X-n"
ChainLine(n) == [chain |-> n]                   \* Chain n
IsRouteLine(l) == DOMAIN l = {"route"}
IsRuleLine(l) == DOMAIN l = {"rule", "word"}
IsChainLine(l) == DOMAIN l = {"chain"}

\* backend/src/bin/main.rs is below bin_dir, backend/src/lib.rs is not.
BinPath == "src/bin/main.rs"
LibPath == "src/lib.rs"
Paths == {BinPath, LibPath}
\* the order rglob("*.rs") yields the files in
PathOrder == <<BinPath, LibPath>>

\* kind: "ok" reads and decodes; "undecodable" holds bytes that are not UTF-8
\* (read_text raises UnicodeDecodeError unless errors='ignore');
\* "unreadable" raises OSError on any read; "absent" is not in the tree.
Kinds == {"ok", "undecodable", "unreadable", "absent"}

SeqsUpTo(S, n) == UNION {[1..k -> S] : k \in 0..n}

Files(tokens) ==
    {[kind |-> k, lines |-> ls] : k \in Kinds \ {"absent"}, ls \in SeqsUpTo(tokens, MaxLines)}
        \cup {[kind |-> "absent", lines |-> <<>>]}

\* A "### Rule R-X-n: text" header of RULES.md; colon says whether the colon is there.
RuleHeader(id, colon) == [rule |-> id, colon |-> colon]
\* A "GET /path" line of SPEC.md.
EndpointLine(p) == [endpoint |-> p]
\* A line of CHAINS.md holding the text "### Chain n:".
ChainHeader(n) == [chain |-> n]

Present(t) == {p \in Paths : t[p].kind # "absent"}

(***************************************************************************)
(* check_rules.py                                                          *)
(***************************************************************************)
RECURSIVE Flatten(_)
Flatten(ss) == IF ss = <<>> THEN <<>> ELSE Head(ss) \o Flatten(Tail(ss))

\* One file of extract_rules_from_code: read_text(encoding='utf-8') raises for a
\* file that cannot be read or decoded, before any line is looked at, and the
\* except clause drops the file.
RulesOfFile(t, p) ==
    IF t[p].kind # "ok" THEN <<>>
    ELSE LET ls == t[p].lines
             occ == [i \in 1..Len(ls) |-> <<ls[i], p, i>>]
             hit(o) == IsRuleLine(o[1])
             found == SelectSeq(occ, hit)
         IN  [i \in 1..Len(found) |-> <<found[i][1].rule, found[i][2], found[i][3]>>]

\* extract_rules_from_code: rule_id -> [(file, line), ...] in visiting order
extract_rules_from_code(t) ==
    LET files == SelectSeq(PathOrder, LAMBDA p : t[p].kind # "absent")
        occ == Flatten([i \in 1..Len(files) |-> RulesOfFile(t, files[i])])
        ids == {occ[i][1] : i \in 1..Len(occ)}
        at(id) == LET mine == SelectSeq(occ, LAMBDA o : o[1] = id)
                  IN  [i \in 1..Len(mine) |-> <<mine[i][2], mine[i][3]>>]
    IN  [id \in ids |-> at(id)]

\* extract_defined_rules of check_rules.py: the headers "### Rule R-X-n: text"
cr_extract_defined_rules(doc) ==
    IF ~doc.exists THEN {}
    ELSE {l.rule : l \in {h \in doc.lines : h.colon}}

\* sorted(code_rules.keys())
SortedKeys(keys) == SelectSeq(RuleOrder, LAMBDA id : id \in keys)

\* main, lines 104-130: locate RULES.md (sys.exit(1) when no candidate exists),
\* then extract the references and load the definitions.
CRStart ==
    /\ cr_pc = "start"
    /\ IF ~rules_md.exists
       THEN /\ cr_pc' = "aborted"
            /\ cr_exit' = 1
            /\ UNCHANGED <<code_rules, defined_rules, cr_todo>>
       ELSE /\ cr_pc' = "verify"
            /\ code_rules' = extract_rules_from_code(tree)
            /\ defined_rules' = cr_extract_defined_rules(rules_md)
            /\ cr_todo' = SortedKeys(DOMAIN extract_rules_from_code(tree))
            /\ UNCHANGED cr_exit
    /\ UNCHANGED <<valid_rules, missing_rules>>
    /\ UNCHANGED <<toolVars, consistencyInputs, vdVars, cpVars>>

\* CRVerify with the else branch of line 152 lost: an undefined rule is dropped
CRVerify_DropsMissing ==
    /\ cr_pc = "verify"
    /\ cr_todo # <<>>
    /\ LET rule_id == Head(cr_todo)
       IN  IF rule_id \in defined_rules
           THEN valid_rules' = Append(valid_rules, rule_id)
           ELSE UNCHANGED valid_rules
    /\ cr_todo' = Tail(cr_todo)
    /\ UNCHANGED <<missing_rules, cr_pc, code_rules, defined_rules, cr_exit>>
    /\ UNCHANGED <<toolVars, consistencyInputs, vdVars, cpVars>>

\* main, lines 138-160: one pass of the verification loop
CRVerify ==
    /\ cr_pc = "verify"
    /\ cr_todo # <<>>
    /\ LET rule_id == Head(cr_todo)
       IN  IF rule_id \in defined_rules
           THEN /\ valid_rules' = Append(valid_rules, rule_id)
                /\ UNCHANGED missing_rules
           ELSE /\ missing_rules' = Append(missing_rules, rule_id)
                /\ UNCHANGED valid_rules
    /\ cr_todo' = Tail(cr_todo)
    /\ UNCHANGED <<cr_pc, code_rules, defined_rules, cr_exit>>
    /\ UNCHANGED <<toolVars, consistencyInputs, vdVars, cpVars>>

\* main, lines 164-178: the summary and the return value
CRSummary ==
    /\ cr_pc = "verify"
    /\ cr_todo = <<>>
    /\ cr_pc' = "done"
    /\ cr_exit' = IF missing_rules # <<>> THEN 1 ELSE 0
    /\ UNCHANGED <<code_rules, defined_rules, cr_todo, valid_rules, missing_rules>>
    /\ UNCHANGED <<toolVars, consistencyInputs, vdVars, cpVars>>


(***************************************************************************)
(* verify_documentation.py                                                 *)
(***************************************************************************)
\* The result of a scan: a value, or the exception that ended it.
Returned(v) == [ok |-> TRUE, val |-> v]
Raised == [ok |-> FALSE, val |-> {}]

\* extract_code_endpoints: bin_dir is there when a file lies below it; each file
\* of bin_dir is read with read_text(encoding='utf-8'), outside any try.
extract_code_endpoints(t) ==
    IF t[BinPath].kind = "absent" THEN Returned({})
    ELSE IF t[BinPath].kind # "ok" THEN Raised
    ELSE LET ls == t[BinPath].lines
         IN  Returned({ls[i].route : i \in {j \in 1..Len(ls) : IsRouteLine(ls[j])}})

\* extract_spec_endpoints: the "GET /path" lines of SPEC.md
extract_spec_endpoints(doc) ==
    IF ~doc.exists THEN {} ELSE {l.endpoint : l \in doc.lines}

\* What read_text(encoding='utf-8', errors='ignore') gives for every file of
\* backend_dir.rglob("*.rs"): bytes that do not decode are dropped, a file that
\* cannot be read raises.
ReadIgnoringErrors(t) ==
    IF \E p \in Present(t) : t[p].kind = "unreadable" THEN Raised
    ELSE Returned(UNION {{t[p].lines[i] : i \in 1..Len(t[p].lines)} : p \in Present(t)})

\* extract_code_rules: 'Rule (R-[A-Z]+-\d+)'
extract_code_rules(t) ==
    LET r == ReadIgnoringErrors(t)
    IN  IF ~r.ok THEN Raised
        ELSE Returned({l.rule : l \in {x \in r.val : IsRuleLine(x) /\ x.word}})

\* extract_defined_rules of verify_documentation.py: '^###\s+Rule\s+(R-[A-Z]+-\d+)'
vd_extract_defined_rules(doc) ==
    IF ~doc.exists THEN {} ELSE {l.rule : l \in doc.lines}

\* extract_code_chains: 'Chain\s+([1-9])'
extract_code_chains(t) ==
    LET r == ReadIgnoringErrors(t)
    IN  IF ~r.ok THEN Raised
        ELSE Returned({l.chain : l \in {x \in r.val : IsChainLine(x)}})

\* check_chain_documented: "### Chain n:" in content
check_chain_documented(chain_num, doc) ==
    doc.exists /\ ChainHeader(chain_num) \in doc.lines

\* an uncaught exception: the interpreter prints the traceback and exits with 1
VDCrash ==
    /\ vd_pc' = "crashed"
    /\ vd_exit' = 1
    /\ UNCHANGED issues_found

\* VDCheck1 comparing in both directions: an endpoint of SPEC.md that the
\* code does not have counts as an issue too
VDCheck1_BothDirections ==
    /\ vd_pc = "check1"
    /\ LET code_endpoints == extract_code_endpoints(tree)
           spec_endpoints == extract_spec_endpoints(spec_md)
           undocumented == code_endpoints.val \ spec_endpoints
           unimplemented == spec_endpoints \ code_endpoints.val
       IN  IF ~code_endpoints.ok THEN VDCrash
           ELSE /\ issues_found' = issues_found + Cardinality(undocumented) + Cardinality(unimplemented)
                /\ vd_pc' = "check2"
                /\ UNCHANGED vd_exit
    /\ UNCHANGED <<toolVars, consistencyInputs, crVars, cpVars>>

\* main, lines 174-190: check 1, SPEC.md endpoint accuracy
VDCheck1 ==
    /\ vd_pc = "check1"
    /\ LET code_endpoints == extract_code_endpoints(tree)
           spec_endpoints == extract_spec_endpoints(spec_md)
           undocumented == code_endpoints.val \ spec_endpoints
       IN  IF ~code_endpoints.ok THEN VDCrash
           ELSE /\ issues_found' = issues_found + Cardinality(undocumented)
                /\ vd_pc' = "check2"
                /\ UNCHANGED vd_exit
    /\ UNCHANGED <<toolVars, consistencyInputs, crVars, cpVars>>

\* main, lines 192-212: check 2, RULES.md rule references
VDCheck2 ==
    /\ vd_pc = "check2"
    /\ LET rules == extract_code_rules(tree)
           defined == vd_extract_defined_rules(rules_md)
           undefined == rules.val \ defined
       IN  IF ~rules.ok THEN VDCrash
           ELSE /\ issues_found' = issues_found + Cardinality(undefined)
                /\ vd_pc' = "check3"
                /\ UNCHANGED vd_exit
    /\ UNCHANGED <<toolVars, consistencyInputs, crVars, cpVars>>

\* main, lines 214-233: check 3, CHAINS.md chain references (one issue per
\* chain of sorted(code_chains) that check_chain_documented rejects)
VDCheck3 ==
    /\ vd_pc = "check3"
    /\ LET code_chains == extract_code_chains(tree)
           undocumented_chains == {c \in code_chains.val : ~check_chain_documented(c, chains_md)}
       IN  IF ~code_chains.ok THEN VDCrash
           ELSE /\ issues_found' = issues_found + Cardinality(undocumented_chains)
                /\ vd_pc' = "summary"
                /\ UNCHANGED vd_exit
    /\ UNCHANGED <<toolVars, consistencyInputs, crVars, cpVars>>

\* main, lines 235-243: the summary and the return value
VDSummary ==
    /\ vd_pc = "summary"
    /\ vd_pc' = "done"
    /\ vd_exit' = IF issues_found = 0 THEN 0 ELSE 1
    /\ UNCHANGED issues_found
    /\ UNCHANGED <<toolVars, consistencyInputs, crVars, cpVars>>


(***************************************************************************)
(* Text of the checkpoint store.  A string is a sequence of tokens: NL is  *)
(* a line break, SP a blank, every other token a run of characters that    *)
(* holds neither; the fixed phrases the regular expressions look for are   *)
(* tokens of their own.                                                    *)
(***************************************************************************)
NL == "\n"
SP == " "
IsWs(c) == c \in {SP, NL}

Max(S) == CHOOSE x \in S : \A y \in S : y <= x
Min(S) == CHOOSE x \in S : \A y \in S : x <= y

\* s from position j up to the end of its line: what (.+) takes
LineFrom(s, j) ==
    LET stops == {k \in j..Len(s) : s[k] = NL}
        last == IF stops = {} THEN Len(s) ELSE Min(stops) - 1
    IN  SubSeq(s, j, last)

\* str.strip()
Strip(s) ==
    LET solid == {k \in 1..Len(s) : ~IsWs(s[k])}
    IN  IF solid = {} THEN <<>> ELSE SubSeq(s, Min(solid), Max(solid))

(***************************************************************************)
(* generate_checkpoint.py: read_progress_md                                *)
(***************************************************************************)
\* A line of progress.md, by the pattern it holds.
\* "### Phase n: title <mark>(U+FE0F) <status> (p%)"
PhaseLine(n, mark, status) == [phase |-> n, mark |-> mark, status |-> status]
\* "## Dependencies & Blockers", "## Recent Completions", or another "## " heading
HeadingLine(h) == [heading |-> h]
\* "k. **b**"
BlockerLine(b) == [blocker |-> b]
\* "- (check mark) c"
CompletionLine(c) == [completion |-> c]
IsPhaseLine(l) == "phase" \in DOMAIN l
IsHeadingLine(l) == "heading" \in DOMAIN l
IsBlockerLine(l) == "blocker" \in DOMAIN l
IsCompletionLine(l) == "completion" \in DOMAIN l
\* what '^##' matches: a "## " heading and a "### Phase" line alike
StartsWithHashes(l) == IsHeadingLine(l) \/ IsPhaseLine(l)

\* "### Phase n: Finish Phase m <mark>(U+FE0F) <status> (p%)": a phase line
\* whose title names another phase
TitledPhaseLine(n, m, mark, status) == [phase |-> n, about |-> m, mark |-> mark, status |-> status]

\* the text a phase line holds from "### Phase" to "%)"
PhaseText(l) ==
    "### Phase " \o ToString(l.phase) \o ": "
        \o (IF "about" \in DOMAIN l THEN "Finish Phase " \o ToString(l.about) \o " " ELSE "")
        \o l.mark \o " " \o l.status \o " (50%)"

\* r'### Phase \d+:.*?[WARN](U+FE0F) IN PROGRESS \((\d+)%\)': the character
\* before U+FE0F is one of the class W, A, R, N
PhaseMatches(l) ==
    IsPhaseLine(l) /\ l.status = "IN PROGRESS" /\ l.mark \in {"W", "A", "R", "N"}

TopN == 5

\* blockers[:5], completions[:5]
Top(s) == SubSeq(s, 1, IF Len(s) < TopN THEN Len(s) ELSE TopN)

\* re.search(heading + r'.*?^##', content, MULTILINE | DOTALL): the lines from
\* the first such heading to the next line that starts with ##; no match
\* when no such line follows.
Section(ls, h) ==
    LET starts == {i \in 1..Len(ls) : ls[i] = HeadingLine(h)}
        i == Min(starts)
        ends == {j \in (i + 1)..Len(ls) : StartsWithHashes(ls[j])}
    IN  IF starts = {} THEN [found |-> FALSE, body |-> <<>>]
        ELSE IF ends = {} THEN [found |-> FALSE, body |-> <<>>]
        ELSE [found |-> TRUE, body |-> SubSeq(ls, i + 1, Min(ends) - 1)]

read_progress_md(doc) ==
    IF ~doc.exists
    THEN [current_phase |-> <<"Unknown">>, active_blockers |-> <<>>, recent_completions |-> <<>>]
    ELSE LET ls == doc.lines
             phases == {i \in 1..Len(ls) : PhaseMatches(ls[i])}
             blockers_section == Section(ls, "blockers")
             completions_section == Section(ls, "completions")
             blockers == SelectSeq(blockers_section.body, IsBlockerLine)
             completions == SelectSeq(completions_section.body, IsCompletionLine)
         IN  [current_phase |->
                 IF phases = {} THEN <<"Unknown">> ELSE <<PhaseText(ls[Min(phases)])>>,
              active_blockers |->
                 Top([k \in 1..Len(blockers) |-> blockers[k].blocker]),
              recent_completions |->
                 Top([k \in 1..Len(completions) |-> completions[k].completion])]

(***************************************************************************)
(* generate_checkpoint.py: generate_checkpoint                             *)
(***************************************************************************)
TicksPerSecond == 2

\* datetime.now().strftime("%Y%m%d_%H%M%S"): the clock cut to the second
Timestamp(t) == t \div TicksPerSecond

\* checkpoint_<timestamp>.md, and a file of another name that somebody put
\* into the directory
CheckpointName(stamp) == <<"checkpoint_", stamp>>
NotesName == <<"notes", 0>>
\* glob("checkpoint_*.md")
MatchesGlob(name) == name[1] = "checkpoint_"

\* The phase lines whose text current_phase can be.
PhaseNumbers == {1, 2, 3, 4, 21}
PhaseLines ==
    {PhaseLine(n, mark, "IN PROGRESS") : n \in PhaseNumbers, mark \in {"W", "A", "R", "N"}}
        \cup {TitledPhaseLine(n, m, mark, "IN PROGRESS") :
                n \in PhaseNumbers, m \in PhaseNumbers, mark \in {"W", "A", "R", "N"}}

\* "Phase k" is part of the decimal text "Phase n": n is k, or k followed by
\* one more digit
InPhaseNumber(k, n) == n = k \/ (n >= 10 /\ n \div 10 = k)

\* "Phase k" is part of the text of the phase line l
InPhaseText(k, l) ==
    InPhaseNumber(k, l.phase) \/ ("about" \in DOMAIN l /\ InPhaseNumber(k, l.about))

\* "Phase 2" in current_phase, "Phase 3" in current_phase
Mentions(current_phase, n) ==
    \E k \in 1..Len(current_phase) :
        \E l \in PhaseLines : current_phase[k] = PhaseText(l) /\ InPhaseText(n, l)

RECURSIVE RenderCompletions(_)
RenderCompletions(cs) ==
    IF cs = <<>> THEN <<>>
    ELSE <<"- (done)", SP, Head(cs), NL>> \o RenderCompletions(Tail(cs))

RECURSIVE RenderBlockers(_, _)
RenderBlockers(bs, i) ==
    IF bs = <<>> THEN <<>>
    ELSE <<ToString(i) \o ".", SP, Head(bs), NL>> \o RenderBlockers(Tail(bs), i + 1)

\* the three suggestion lists of lines 184-194
Phase2Actions ==
    <<"1. Complete Multipass OIDC client implementation", NL,
      "2. Implement Chain 9 (Leasing) client-side integration", NL,
      "3. Build account creation wizard UI", NL>>
Phase3Actions ==
    <<"1. Start SpookySocial demo site development", NL,
      "2. Implement OIDC relying party integration", NL,
      "3. Create QR code login flow", NL>>
GenericActions ==
    <<"1. Check progress.md for current priorities", NL,
      "2. Run bootstrap_context.py to verify system state", NL,
      "3. Continue with active phase tasks", NL>>

\* NextActions with the two tests in the other order
NextActions_Phase3First(current_phase) ==
    IF Mentions(current_phase, 3) THEN Phase3Actions
    ELSE IF Mentions(current_phase, 2) THEN Phase2Actions
    ELSE GenericActions

\* lines 183-194
NextActions(current_phase) ==
    IF Mentions(current_phase, 2) THEN Phase2Actions
    ELSE IF Mentions(current_phase, 3) THEN Phase3Actions
    ELSE GenericActions

\* lines 99-209: the text of the checkpoint
CheckpointContent(stamp, user_message, progress_state) ==
    <<"# SpookyID Session Checkpoint", NL, NL,
      "**Generated**:", SP, ToString(stamp), NL,
      "**Checkpoint ID**:", SP, ToString(stamp), NL, NL, "---", NL, NL,
      "## Session Context", NL, NL,
      "**User Message**:", SP>>
    \o (IF user_message # <<>> THEN user_message ELSE <<"(none provided)">>)
    \o <<NL, NL, "---", NL, NL, "## Current Work State", NL, NL,
         "### Active Phase", NL, NL>>
    \o progress_state.current_phase
    \o <<NL, NL, "### Recent Completions", NL, NL>>
    \o (IF progress_state.recent_completions # <<>>
        THEN RenderCompletions(progress_state.recent_completions)
        ELSE <<"- (none found in progress.md)", NL>>)
    \o <<NL, "### Active Blockers", NL, NL>>
    \o (IF progress_state.active_blockers # <<>>
        THEN RenderBlockers(progress_state.active_blockers, 1)
        ELSE <<"- (none found in progress.md)", NL>>)
    \o <<NL, "---", NL, NL, "## Restoration Protocol", NL, NL,
         "## Next Actions", NL, NL, "Based on current state:", NL, NL>>
    \o NextActions(progress_state.current_phase)
    \o <<NL, "---", NL, NL, "## Critical Reminders", NL>>

\* Path.write_text: the file of that name is created or replaced
WriteText(files, name, content, t) ==
    {f \in files : f.name # name} \cup {[name |-> name, content |-> content, mtime |-> t]}

\* generate_checkpoint(directives_dir, user_message): mkdir(exist_ok=True),
\* the timestamp, read_progress_md, write_text.  A message of None and an
\* empty message take the same branch of line 108 and are both <<>> here.
\* The run takes one tick.
GenerateCheckpoint(user_message) ==
    LET timestamp == Timestamp(now)
        checkpoint_file == CheckpointName(timestamp)
        progress_state == read_progress_md(progress_md)
        content == CheckpointContent(timestamp, user_message, progress_state)
    IN  /\ cp_dir' = TRUE
        /\ cp_files' = WriteText(cp_files, checkpoint_file, content, now)
        /\ created' = Append(created, checkpoint_file)
        /\ last_create' = [made |-> TRUE, name |-> checkpoint_file,
                           message |-> user_message, state |-> progress_state]
        /\ now' = now + 1

(***************************************************************************)
(* restore_checkpoint.py                                                   *)
(***************************************************************************)
\* sorted(glob("checkpoint_*.md"), key=st_mtime, reverse=True): the newest
\* first; files of one mtime keep the order glob gave them, by name here.
Newer(f, g) == f.mtime > g.mtime \/ (f.mtime = g.mtime /\ f.name[2] < g.name[2])

RECURSIVE SortNewestFirst(_)
SortNewestFirst(fs) ==
    IF fs = {} THEN <<>>
    ELSE LET first == CHOOSE f \in fs : \A g \in fs \ {f} : Newer(f, g)
         IN  <<first>> \o SortNewestFirst(fs \ {first})

list_checkpoints(dir, files) ==
    IF ~dir THEN <<>>
    ELSE SortNewestFirst({f \in files : MatchesGlob(f.name)})

\* re.search(r'\*\*User Message\*\*:\s*(.+)', content): \s* takes the longest
\* run of blanks and line breaks that leaves (.+) a character of the line
UserMessageMatch(content) ==
    LET from(i) == {p \in (i + 1)..Len(content) :
                        /\ content[p] # NL
                        /\ \A q \in (i + 1)..(p - 1) : IsWs(content[q])}
        hits == {i \in 1..Len(content) : content[i] = "**User Message**:" /\ from(i) # {}}
    IN  IF hits = {} THEN [found |-> FALSE, group |-> <<>>]
        ELSE [found |-> TRUE, group |-> LineFrom(content, Max(from(Min(hits))))]

\* re.search(r'### Active Phase\s*\n\n(.+)', content): \s* takes the longest
\* run that is still followed by two line breaks and a character of a line
ActivePhaseMatch(content) ==
    LET from(i) == {j \in (i + 1)..(Len(content) - 2) :
                        /\ content[j] = NL
                        /\ content[j + 1] = NL
                        /\ content[j + 2] # NL
                        /\ \A q \in (i + 1)..(j - 1) : IsWs(content[q])}
        hits == {i \in 1..Len(content) : content[i] = "### Active Phase" /\ from(i) # {}}
    IN  IF hits = {} THEN [found |-> FALSE, group |-> <<>>]
        ELSE [found |-> TRUE, group |-> LineFrom(content, Max(from(Min(hits))) + 2)]

\* get_checkpoint_summary, lines 63-89 (the Generated line is left out)
get_checkpoint_summary(content) ==
    LET message_match == UserMessageMatch(content)
        phase_match == ActivePhaseMatch(content)
    IN  [user_message |->
            IF message_match.found THEN Strip(message_match.group) ELSE <<"None">>,
         current_phase |->
            IF phase_match.found THEN Strip(phase_match.group) ELSE <<"Unknown">>]

NoRun == [mode |-> "none", name |-> <<>>, exit |-> -1, shown |-> <<>>, listed |-> <<>>]

\* RestoreMain with the --checkpoint argument looked at before the list of
\* checkpoints is tested for emptiness
RestoreMain_NameFirst(list_mode, name) ==
    LET checkpoints == list_checkpoints(cp_dir, cp_files)
        named == {f \in cp_files : name # <<>> /\ f.name = name[1]}
        out(exit, shown, listed) ==
            [mode |-> IF list_mode THEN "list" ELSE "restore", name |-> name,
             exit |-> exit, shown |-> shown, listed |-> listed]
    IN  /\ rs_out' =
              IF ~cp_dir THEN out(1, <<>>, <<>>)
              ELSE IF ~list_mode /\ named # {} THEN out(0, <<CHOOSE f \in named : TRUE>>, <<>>)
              ELSE IF checkpoints = <<>> THEN out(1, <<>>, <<>>)
              ELSE IF list_mode
                   THEN out(0, <<>>, [i \in 1..Len(checkpoints) |->
                                        [name |-> checkpoints[i].name,
                                         summary |-> get_checkpoint_summary(checkpoints[i].content)]])
              ELSE IF name # <<>> THEN out(1, <<>>, <<>>)
              ELSE out(0, <<checkpoints[1]>>, <<>>)
        /\ UNCHANGED <<now, progress_md, cp_dir, cp_files, created, last_create>>

\* main of restore_checkpoint.py; name is <<>> or <<the --checkpoint argument>>
RestoreMain(list_mode, name) ==
    LET checkpoints == list_checkpoints(cp_dir, cp_files)
        named == {f \in cp_files : name # <<>> /\ f.name = name[1]}
        out(exit, shown, listed) ==
            [mode |-> IF list_mode THEN "list" ELSE "restore", name |-> name,
             exit |-> exit, shown |-> shown, listed |-> listed]
    IN  /\ rs_out' =
              IF ~cp_dir THEN out(1, <<>>, <<>>)
              ELSE IF checkpoints = <<>> THEN out(1, <<>>, <<>>)
              ELSE IF list_mode
                   THEN out(0, <<>>, [i \in 1..Len(checkpoints) |->
                                        [name |-> checkpoints[i].name,
                                         summary |-> get_checkpoint_summary(checkpoints[i].content)]])
              ELSE IF name # <<>>
                   THEN IF named = {} THEN out(1, <<>>, <<>>)
                        ELSE out(0, <<CHOOSE f \in named : TRUE>>, <<>>)
              ELSE out(0, <<checkpoints[1]>>, <<>>)
        /\ UNCHANGED <<now, progress_md, cp_dir, cp_files, created, last_create>>

(***************************************************************************)
(* The checkpoint store in use: runs of the two scripts, one after the     *)
(* other, an editor changing progress.md, and time passing.                *)
(***************************************************************************)
MaxTime == 4

CPMessages ==
    { <<>>,
      <<"Chain 9">>,
      <<SP, "Chain 9", SP>>,
      <<"Chain 9", NL, "### Active Phase", NL, NL, "done">> }

CPProgressDocs ==
    { Missing,
      [exists |-> TRUE,
       lines |-> <<PhaseLine(2, "W", "IN PROGRESS"),
                   HeadingLine("completions"), CompletionLine("BBS+ verifier"),
                   HeadingLine("blockers"), BlockerLine("NFC reader"),
                   HeadingLine("other")>>] }

\* the names restore is asked for: one a checkpoint may get, one it never gets
CPNames == {CheckpointName(0), NotesName}

Create(user_message) ==
    /\ now <= MaxTime
    /\ GenerateCheckpoint(user_message)
    /\ rs_out' = NoRun
    /\ UNCHANGED progress_md
    /\ UNCHANGED <<toolVars, consistencyInputs, crVars, vdVars>>

List ==
    /\ RestoreMain(TRUE, <<>>)
    /\ UNCHANGED <<toolVars, consistencyInputs, crVars, vdVars>>

Restore(name) ==
    /\ RestoreMain(FALSE, name)
    /\ UNCHANGED <<toolVars, consistencyInputs, crVars, vdVars>>

EditProgress(doc) ==
    /\ doc # progress_md
    /\ progress_md' = doc
    /\ UNCHANGED <<now, cp_dir, cp_files, created, last_create, rs_out>>
    /\ UNCHANGED <<toolVars, consistencyInputs, crVars, vdVars>>

Tick ==
    /\ now < MaxTime
    /\ now' = now + 1
    /\ UNCHANGED <<progress_md, cp_dir, cp_files, created, last_create, rs_out>>
    /\ UNCHANGED <<toolVars, consistencyInputs, crVars, vdVars>>

(***************************************************************************)
(* bootstrap_context.py                                                    *)
(***************************************************************************)
\* What a "<command> --version" process, run with timeout=5, can do: exit
\* with 0, exit with another code, not be found (FileNotFoundError), or not
\* finish within the timeout (TimeoutExpired, caught by "except Exception").
ToolOutcomes == {"ok", "nonzero", "notfound", "timeout"}

\* check_command: True only when the process returned 0
check_command(outcome) == outcome = "ok"

\* prereqs of main, and the optional tool
RequiredTools == <<"cargo", "node", "python3">>
OptionalTool == "docker"
AllTools == {RequiredTools[i] : i \in 1..Len(RequiredTools)} \cup {OptionalTool}
Unchecked == [c \in AllTools |-> "unchecked"]

\* critical_files of check_critical_files, in its order
CriticalFiles ==
    <<"multipass/directives/BOOTSTRAP.md", "multipass/directives/CHAINS.md",
      "multipass/directives/RULES.md", "multipass/directives/AGENTS.md",
      "multipass/directives/progress.md", "SpookyID_stack/SPEC.md",
      "SpookyID_stack/backend/Cargo.toml", "SpookyID_stack/scripts/bootstrap.sh",
      "SpookyID_stack/scripts/test.sh", "multipass/.claude/settings.json">>

\* check_critical_files: the missing list (the found list is only printed)
check_critical_files(files) == SelectSeq(CriticalFiles, LAMBDA p : p \notin files)

\* A string of the environment: a sequence of characters.
Dots == <<".", ".", ".">>
Stars == <<"*", "*", "*">>
MaskLen == 8

\* critical_vars of check_environment_variables, in its order
CriticalVars == <<"DATABASE_URL", "SPOOKY_ISSUER", "SPOOKY_JWT_SECRET", "SPOOKY_PEPPER">>
\* "SECRET" in var_name or "PEPPER" in var_name or "PASSWORD" in var_name
IsSensitive(var_name) == var_name \in {"SPOOKY_JWT_SECRET", "SPOOKY_PEPPER"}

\* value[:8] + "..." if len(value) > 8 else "***"
Masked(value) ==
    IF Len(value) > MaskLen THEN SubSeq(value, 1, MaskLen) \o Dots ELSE Stars

\* f"{var_name}={masked}", f"{var_name}={value}"
FoundEntry(var_name, value) ==
    <<var_name, "=">> \o (IF IsSensitive(var_name) THEN Masked(value) ELSE value)

\* check_environment_variables: a variable that is not set and one set to ""
\* both fail "if value"
check_environment_variables(env) ==
    LET set == SelectSeq(CriticalVars, LAMBDA v : env[v] # <<>>)
        unset == SelectSeq(CriticalVars, LAMBDA v : env[v] = <<>>)
    IN  [found |-> [i \in 1..Len(set) |-> FoundEntry(set[i], env[set[i]])],
         missing |-> unset]

\* binaries of check_built_binaries, in its order
Binaries ==
    <<"SpookyID_stack/backend/target/release/oidc_service",
      "SpookyID_stack/backend/target/debug/oidc_service">>
BackendDir == "SpookyID_stack/backend"
VerifyScript == "multipass/directives/execution/verify_documentation.py"

\* check_built_binaries: the missing list (one entry when no binary is there)
check_built_binaries(files) ==
    IF \E i \in 1..Len(Binaries) : Binaries[i] \in files
    THEN <<>>
    ELSE <<"OIDC service binary">>

\* an uncaught exception: the interpreter prints the traceback and exits with 1
BCCrash ==
    /\ bc_pc' = "crashed"
    /\ bc_exit' = 1

\* BCStage1 with the return of line 184 lost: the run goes on to stage 2
\* whatever the tools did
BCStage1_NoAbort ==
    /\ bc_pc = "stage1"
    /\ \E outs \in [AllTools -> ToolOutcomes] :
          LET failed == {i \in 1..Len(RequiredTools) : ~check_command(outs[RequiredTools[i]])}
          IN  /\ tool_result' = outs
              /\ bc_issues_found' = bc_issues_found + Cardinality(failed)
              /\ bc_pc' = "stage2"
              /\ UNCHANGED bc_exit
    /\ stages_run' = stages_run \cup {1}
    /\ UNCHANGED <<missing_files, found_vars, missing_vars, missing_bins, build_result, docs_result>>
    /\ UNCHANGED <<bcInputs, env_out, moreVars, consistencyInputs, crVars, vdVars, cpVars>>

\* main, lines 163-184: stage 1, the tools.  docker is checked and its result
\* is dropped.
BCStage1 ==
    /\ bc_pc = "stage1"
    /\ \E outs \in [AllTools -> ToolOutcomes] :
          LET failed == {i \in 1..Len(RequiredTools) : ~check_command(outs[RequiredTools[i]])}
              prereq_ok == failed = {}
          IN  /\ tool_result' = outs
              /\ bc_issues_found' = bc_issues_found + Cardinality(failed)
              /\ IF ~prereq_ok
                 THEN bc_pc' = "aborted" /\ bc_exit' = 1
                 ELSE bc_pc' = "stage2" /\ UNCHANGED bc_exit
    /\ stages_run' = stages_run \cup {1}
    /\ UNCHANGED <<missing_files, found_vars, missing_vars, missing_bins, build_result, docs_result>>
    /\ UNCHANGED <<bcInputs, env_out, moreVars, consistencyInputs, crVars, vdVars, cpVars>>

\* main, lines 188-204: stage 2, the critical files
BCStage2 ==
    /\ bc_pc = "stage2"
    /\ missing_files' = check_critical_files(root_fs)
    /\ bc_issues_found' = bc_issues_found + Len(check_critical_files(root_fs))
    /\ bc_pc' = "stage3"
    /\ stages_run' = stages_run \cup {2}
    /\ UNCHANGED <<tool_result, found_vars, missing_vars, missing_bins, build_result, docs_result, bc_exit>>
    /\ UNCHANGED <<bcInputs, env_out, moreVars, consistencyInputs, crVars, vdVars, cpVars>>

\* main, lines 206-221: stage 3, the environment variables (issues_found is
\* left alone)
BCStage3 ==
    /\ bc_pc = "stage3"
    /\ found_vars' = check_environment_variables(environ).found
    /\ missing_vars' = check_environment_variables(environ).missing
    /\ bc_pc' = "stage4"
    /\ stages_run' = stages_run \cup {3}
    /\ UNCHANGED <<bc_issues_found, tool_result, missing_files, missing_bins, build_result, docs_result, bc_exit>>
    /\ UNCHANGED <<bcInputs, env_out, moreVars, consistencyInputs, crVars, vdVars, cpVars>>

\* main, lines 223-242: stage 4, the built binaries.  A missing binary is a
\* warning; with --fix the build is started by subprocess.run(..., cwd=backend,
\* check=True), without a timeout, which raises FileNotFoundError when the
\* directory is not there.
BCStage4 ==
    /\ bc_pc = "stage4"
    /\ missing_bins' = check_built_binaries(root_fs)
    /\ stages_run' = stages_run \cup {4}
    /\ IF check_built_binaries(root_fs) # <<>> /\ fix_mode
       THEN IF BackendDir \notin root_fs
            THEN BCCrash /\ UNCHANGED build_result
            ELSE bc_pc' = "building" /\ build_result' = "running" /\ UNCHANGED bc_exit
       ELSE bc_pc' = "stage5" /\ UNCHANGED <<build_result, bc_exit>>
    /\ UNCHANGED <<bc_issues_found, tool_result, missing_files, found_vars, missing_vars, docs_result>>
    /\ UNCHANGED <<bcInputs, env_out, moreVars, consistencyInputs, crVars, vdVars, cpVars>>

\* main, lines 243-246: the build process ends, with 0 or with another code
\* (CalledProcessError: one more issue)
BCBuildEnds ==
    /\ bc_pc = "building"
    /\ \/ /\ build_result' = "ok"
          /\ root_fs' = root_fs \cup {Binaries[1]}
          /\ UNCHANGED bc_issues_found
       \/ /\ build_result' = "failed"
          /\ bc_issues_found' = bc_issues_found + 1
          /\ UNCHANGED root_fs
    /\ bc_pc' = "stage5"
    /\ UNCHANGED <<tool_result, missing_files, found_vars, missing_vars, missing_bins,
                   docs_result, stages_run, bc_exit>>
    /\ UNCHANGED <<fix_mode, environ, env_out, moreVars, consistencyInputs, crVars, vdVars, cpVars>>

\* What the delegated run, subprocess.run(..., timeout=30), can do: exit with
\* 0, exit with another code, not finish in time, or not start; the last two
\* are caught by "except Exception".
DocsOutcomes == {"ok", "nonzero", "timeout", "error"}

\* BCStage5 with a delegated run that did not exit with 0 counted as an issue
BCStage5_CountsIssue ==
    /\ bc_pc = "stage5"
    /\ IF VerifyScript \in root_fs
       THEN \E out \in DocsOutcomes :
               /\ docs_result' = out
               /\ bc_issues_found' = bc_issues_found + (IF out = "ok" THEN 0 ELSE 1)
       ELSE docs_result' = "skipped" /\ UNCHANGED bc_issues_found
    /\ bc_pc' = "summary"
    /\ stages_run' = stages_run \cup {5}
    /\ UNCHANGED <<tool_result, missing_files, found_vars, missing_vars,
                   missing_bins, build_result, bc_exit>>
    /\ UNCHANGED <<bcInputs, env_out, moreVars, consistencyInputs, crVars, vdVars, cpVars>>

\* main, lines 250-272: stage 5, the documentation check (prints only)
BCStage5 ==
    /\ bc_pc = "stage5"
    /\ IF VerifyScript \in root_fs
       THEN \E out \in DocsOutcomes : docs_result' = out
       ELSE docs_result' = "skipped"
    /\ bc_pc' = "summary"
    /\ stages_run' = stages_run \cup {5}
    /\ UNCHANGED <<bc_issues_found, tool_result, missing_files, found_vars, missing_vars,
                   missing_bins, build_result, bc_exit>>
    /\ UNCHANGED <<bcInputs, env_out, moreVars, consistencyInputs, crVars, vdVars, cpVars>>

\* main, lines 274-288: the summary and the return value
BCSummary ==
    /\ bc_pc = "summary"
    /\ bc_pc' = "done"
    /\ bc_exit' = IF bc_issues_found = 0 /\ missing_vars = <<>> THEN 0 ELSE 1
    /\ UNCHANGED <<bc_issues_found, tool_result, missing_files, found_vars, missing_vars,
                   missing_bins, build_result, docs_result, stages_run>>
    /\ UNCHANGED <<bcInputs, env_out, moreVars, consistencyInputs, crVars, vdVars, cpVars>>

\* check_environment_variables called on its own
EnvNotCalled == [called |-> FALSE, found |-> <<>>, missing |-> <<>>]

CallCheckEnvironment ==
    /\ ~env_out.called
    /\ env_out' = [called |-> TRUE,
                   found |-> check_environment_variables(environ).found,
                   missing |-> check_environment_variables(environ).missing]
    /\ UNCHANGED <<bcInputs, bcVars, moreVars, consistencyInputs, crVars, vdVars, cpVars>>

(***************************************************************************)
(* check_rules.py: extract_rules_from_code called more than once, and a    *)
(* file of the tree deleted in between.                                    *)
(***************************************************************************)
MaxRuns == 2

\* extract_rules_from_code with rglob yielding the files in the opposite order
extract_rules_backwards(t) ==
    LET files == SelectSeq(<<LibPath, BinPath>>, LAMBDA p : t[p].kind # "absent")
        occ == Flatten([i \in 1..Len(files) |-> RulesOfFile(t, files[i])])
        ids == {occ[i][1] : i \in 1..Len(occ)}
        at(id) == LET mine == SelectSeq(occ, LAMBDA o : o[1] = id)
                  IN  [i \in 1..Len(mine) |-> <<mine[i][2], mine[i][3]>>]
    IN  [id \in ids |-> at(id)]

\* a call that walks the tree in the order the call before it did not use
ExtractRun_OrderChanges ==
    /\ Len(ex_runs) < MaxRuns
    /\ ex_runs' = Append(ex_runs,
                         [tree |-> tree,
                          rules |-> IF Len(ex_runs) % 2 = 0
                                    THEN extract_rules_from_code(tree)
                                    ELSE extract_rules_backwards(tree)])
    /\ UNCHANGED <<bcInputs, bcVars, env_out, iacInputs, iacVars, mkVars, rp_out>>
    /\ UNCHANGED <<consistencyInputs, crVars, vdVars, cpVars>>

\* one call of extract_rules_from_code(backend_dir)
ExtractRun ==
    /\ Len(ex_runs) < MaxRuns
    /\ ex_runs' = Append(ex_runs, [tree |-> tree, rules |-> extract_rules_from_code(tree)])
    /\ UNCHANGED <<bcInputs, bcVars, env_out, iacInputs, iacVars, mkVars, rp_out>>
    /\ UNCHANGED <<consistencyInputs, crVars, vdVars, cpVars>>

\* somebody deletes the file p of the tree
DeleteFile(p) ==
    /\ tree[p].kind # "absent"
    /\ tree' = [tree EXCEPT ![p] = [kind |-> "absent", lines |-> <<>>]]
    /\ UNCHANGED <<spec_md, rules_md, chains_md, crVars, vdVars, cpVars, toolVars>>

(***************************************************************************)
(* scripts/issue_admin_credential.py                                       *)
(***************************************************************************)
\* range(10) of the wait loop
MaxPolls == 10

\* sys.exit(1)
IACExit1 ==
    /\ iac_pc' = "exited"
    /\ iac_exit' = 1

\* the if of line 45 lost: the signing goes ahead whatever the loop found
IACAfterLoop_NoCardCheck ==
    /\ iac_pc = "after_loop"
    /\ IF ~backend_dir
       THEN IACExit1 /\ UNCHANGED signer_calls
       ELSE /\ iac_pc' = "signing"
            /\ signer_calls' = Append(signer_calls, "running")
            /\ UNCHANGED iac_exit
    /\ UNCHANGED <<polls, card_info, iacInputs>>
    /\ UNCHANGED <<bcInputs, bcVars, env_out, ex_runs, mkVars, rp_out>>
    /\ UNCHANGED <<consistencyInputs, crVars, vdVars, cpVars>>

\* main, lines 38-43: one pass of the wait loop.  run_gp_info exits with 1
\* when gp.jar is not there; else it gives the card's info when
\* "java -jar gp.jar --info" returns 0 and names a serial number, which it
\* does when the card is in the reader, and None in every other case.
IACPoll ==
    /\ iac_pc = "poll"
    /\ polls' = polls + 1
    /\ IF ~gp_jar
       THEN IACExit1 /\ UNCHANGED card_info
       ELSE /\ card_info' = card_present
            /\ iac_pc' = IF card_present \/ polls + 1 = MaxPolls THEN "after_loop" ELSE "poll"
            /\ UNCHANGED iac_exit
    /\ UNCHANGED <<signer_calls, iacInputs>>
    /\ UNCHANGED <<bcInputs, bcVars, env_out, ex_runs, mkVars, rp_out>>
    /\ UNCHANGED <<consistencyInputs, crVars, vdVars, cpVars>>

\* main, lines 45-83: no card, or no backend directory: exit 1; else the
\* signing command "cargo run --bin oidc_service -- issue-admin" is started
IACAfterLoop ==
    /\ iac_pc = "after_loop"
    /\ IF ~card_info \/ ~backend_dir
       THEN IACExit1 /\ UNCHANGED signer_calls
       ELSE /\ iac_pc' = "signing"
            /\ signer_calls' = Append(signer_calls, "running")
            /\ UNCHANGED iac_exit
    /\ UNCHANGED <<polls, card_info, iacInputs>>
    /\ UNCHANGED <<bcInputs, bcVars, env_out, ex_runs, mkVars, rp_out>>
    /\ UNCHANGED <<consistencyInputs, crVars, vdVars, cpVars>>

\* main, lines 83-105: the signing command ends.  Another code than 0 is a
\* CalledProcessError: exit 1.  With 0 main shows the credential file when
\* the command wrote it, reports it missing when not, and returns.
IACSignerEnds ==
    /\ iac_pc = "signing"
    /\ \/ /\ signer_calls' = [signer_calls EXCEPT ![Len(signer_calls)] = "failed"]
          /\ IACExit1
          /\ UNCHANGED out_file
       \/ /\ signer_calls' = [signer_calls EXCEPT ![Len(signer_calls)] = "ok"]
          /\ \E wrote \in BOOLEAN : out_file' = (out_file \/ wrote)
          /\ iac_pc' = "done"
          /\ iac_exit' = 0
    /\ UNCHANGED <<polls, card_info, card_present, gp_jar, backend_dir>>
    /\ UNCHANGED <<bcInputs, bcVars, env_out, ex_runs, mkVars, rp_out>>
    /\ UNCHANGED <<consistencyInputs, crVars, vdVars, cpVars>>

\* somebody puts the card into the reader, or takes it out, while the script waits
MoveCard ==
    /\ iac_pc = "poll"
    /\ card_present' = ~card_present
    /\ UNCHANGED <<gp_jar, backend_dir, out_file, iacVars>>
    /\ UNCHANGED <<bcInputs, bcVars, env_out, ex_runs, mkVars, rp_out>>
    /\ UNCHANGED <<consistencyInputs, crVars, vdVars, cpVars>>

(***************************************************************************)
(* generate_checkpoint.py run by two processes at once.  Each process      *)
(* makes the directory (line 89) and then does the rest of                 *)
(* generate_checkpoint; the steps of the two interleave.                   *)
(***************************************************************************)
Procs == {1, 2}

\* checkpoints_dir.mkdir() without exist_ok: FileExistsError is raised
PMkdir_NoExistOk(p) ==
    /\ mk_pc[p] = "mkdir"
    /\ IF ~cp_dir
       THEN /\ cp_dir' = TRUE
            /\ mk_pc' = [mk_pc EXCEPT ![p] = "write"]
            /\ UNCHANGED mk_exists
       ELSE /\ mk_exists' = [mk_exists EXCEPT ![p] = TRUE]
            /\ mk_pc' = [mk_pc EXCEPT ![p] = "failed"]
            /\ UNCHANGED cp_dir
    /\ UNCHANGED <<now, progress_md, cp_files, created, last_create, rs_out>>
    /\ UNCHANGED <<bcInputs, bcVars, env_out, ex_runs, iacInputs, iacVars, rp_out>>
    /\ UNCHANGED <<consistencyInputs, crVars, vdVars>>

\* checkpoints_dir.mkdir(exist_ok=True): os.mkdir makes the directory or
\* answers FileExistsError, in one step of the operating system; the error
\* is dropped because exist_ok is set and the path is a directory.
PMkdir(p) ==
    /\ mk_pc[p] = "mkdir"
    /\ IF ~cp_dir
       THEN /\ cp_dir' = TRUE
            /\ UNCHANGED mk_exists
       ELSE /\ mk_exists' = [mk_exists EXCEPT ![p] = TRUE]
            /\ UNCHANGED cp_dir
    /\ mk_pc' = [mk_pc EXCEPT ![p] = "write"]
    /\ UNCHANGED <<now, progress_md, cp_files, created, last_create, rs_out>>
    /\ UNCHANGED <<bcInputs, bcVars, env_out, ex_runs, iacInputs, iacVars, rp_out>>
    /\ UNCHANGED <<consistencyInputs, crVars, vdVars>>

\* lines 92-214 of generate_checkpoint in the process p
PWrite(p, user_message) ==
    /\ mk_pc[p] = "write"
    /\ GenerateCheckpoint(user_message)
    /\ mk_pc' = [mk_pc EXCEPT ![p] = "done"]
    /\ UNCHANGED <<mk_exists, progress_md, rs_out>>
    /\ UNCHANGED <<bcInputs, bcVars, env_out, ex_runs, iacInputs, iacVars, rp_out>>
    /\ UNCHANGED <<consistencyInputs, crVars, vdVars>>

\* time passes while the two processes run
PTick ==
    /\ now < MaxTime
    /\ now' = now + 1
    /\ UNCHANGED <<progress_md, cp_dir, cp_files, created, last_create, rs_out>>
    /\ UNCHANGED <<toolVars, consistencyInputs, crVars, vdVars>>

(***************************************************************************)
(* generate_checkpoint.py: read_progress_md called on its own, on          *)
(* documents with the two sections in either order.                        *)
(***************************************************************************)
MaxItems == 6

\* "## Dependencies & Blockers" with n numbered bold items below it, each
\* followed by a line of plain text
BlockersSection(n) ==
    <<HeadingLine("blockers")>>
        \o [i \in 1..(2 * n) |-> IF i % 2 = 1 THEN BlockerLine(ToString((i + 1) \div 2))
                                 ELSE [text |-> "details"]]
\* "## Recent Completions" with n checklist items below it
CompletionsSection(n) ==
    <<HeadingLine("completions")>> \o [i \in 1..n |-> CompletionLine(ToString(i))]

\* a progress document: the phase line, the two sections in one order or the
\* other, and, when closed, another "## " heading after them
ProgressDoc(blockers_first, nb, nc, closed) ==
    [exists |-> TRUE,
     lines |-> <<PhaseLine(2, "W", "IN PROGRESS")>>
               \o (IF blockers_first THEN BlockersSection(nb) \o CompletionsSection(nc)
                   ELSE CompletionsSection(nc) \o BlockersSection(nb))
               \o (IF closed THEN <<HeadingLine("other")>> ELSE <<>>)]

\* the same document without its phase line
WithoutPhase(doc) == [exists |-> TRUE, lines |-> Tail(doc.lines)]
\* a progress.md holding bytes that are not UTF-8 among the lines of doc
Undecodable(doc) == [exists |-> TRUE, lines |-> doc.lines, undecodable |-> TRUE]
IsUndecodable(doc) == "undecodable" \in DOMAIN doc

RPNotCalled == [called |-> FALSE, raised |-> FALSE, state |-> read_progress_md(Missing)]

\* read_progress_md(directives_dir): progress_file.read_text(encoding='utf-8')
\* of line 62 is outside any try, so bytes that do not decode end the call
\* with UnicodeDecodeError and no state is returned.
ReadProgress ==
    /\ ~rp_out.called
    /\ rp_out' = IF IsUndecodable(progress_md)
                 THEN [called |-> TRUE, raised |-> TRUE, state |-> read_progress_md(Missing)]
                 ELSE [called |-> TRUE, raised |-> FALSE, state |-> read_progress_md(progress_md)]
    /\ UNCHANGED <<bcInputs, bcVars, env_out, ex_runs, iacInputs, iacVars, mkVars>>
    /\ UNCHANGED <<consistencyInputs, crVars, vdVars, cpVars>>

(***************************************************************************)
(* Specifications: one per tool, each over the files that tool reads.      *)
(***************************************************************************)
CRIdle ==
    /\ cr_pc = "start"
    /\ code_rules = <<>>
    /\ defined_rules = {}
    /\ cr_todo = <<>>
    /\ valid_rules = <<>>
    /\ missing_rules = <<>>
    /\ cr_exit = -1

VDIdle ==
    /\ vd_pc = "check1"
    /\ issues_found = 0
    /\ vd_exit = -1

NoCreate == [made |-> FALSE, name |-> NotesName, message |-> <<>>, state |-> read_progress_md(Missing)]

CPIdle ==
    /\ now = 0
    /\ progress_md = Missing
    /\ cp_dir = FALSE
    /\ cp_files = {}
    /\ created = <<>>
    /\ last_create = NoCreate
    /\ rs_out = NoRun

ConsistencyIdle ==
    /\ tree = [p \in Paths |-> [kind |-> "absent", lines |-> <<>>]]
    /\ spec_md = Missing
    /\ rules_md = Missing
    /\ chains_md = Missing
    /\ CRIdle
    /\ VDIdle

IACIdle ==
    /\ card_present = FALSE
    /\ gp_jar = FALSE
    /\ backend_dir = FALSE
    /\ out_file = FALSE
    /\ iac_pc = "poll"
    /\ polls = 0
    /\ card_info = FALSE
    /\ signer_calls = <<>>
    /\ iac_exit = -1

MKIdle ==
    /\ mk_pc = [p \in Procs |-> "mkdir"]
    /\ mk_exists = [p \in Procs |-> FALSE]

MoreIdle ==
    /\ ex_runs = <<>>
    /\ IACIdle
    /\ MKIdle
    /\ rp_out = RPNotCalled

BCIdle ==
    /\ fix_mode = FALSE
    /\ root_fs = {}
    /\ environ = [v \in {CriticalVars[i] : i \in 1..Len(CriticalVars)} |-> <<>>]
    /\ bc_pc = "stage1"
    /\ bc_issues_found = 0
    /\ tool_result = Unchecked
    /\ missing_files = <<>>
    /\ found_vars = <<>>
    /\ missing_vars = <<>>
    /\ missing_bins = <<>>
    /\ build_result = "none"
    /\ docs_result = "none"
    /\ stages_run = {}
    /\ bc_exit = -1

ToolsIdle ==
    /\ BCIdle
    /\ env_out = EnvNotCalled
    /\ MoreIdle

\* What a rule-checker run may find on disk.
CRTokens == {RuleLine(id, w) : id \in RuleIds, w \in {TRUE}} \cup {RuleLine("R-AUTH-002", FALSE), ChainLine(1)}
CRRuleDocs == Docs({RuleHeader("R-AUTH-001", TRUE), RuleHeader("R-AUTH-002", TRUE), RuleHeader("R-AUTH-002", FALSE)})

InitCR ==
    /\ tree \in [Paths -> Files(CRTokens)]
    /\ rules_md \in CRRuleDocs
    /\ spec_md = Missing
    /\ chains_md = Missing
    /\ CRIdle
    /\ VDIdle
    /\ CPIdle
    /\ ToolsIdle

NextCR == CRStart \/ CRVerify \/ CRSummary

SpecCR == InitCR /\ [][NextCR]_vars

\* What a documentation-verifier run may find on disk.
VDTokens ==
    {RouteLine(p) : p \in RoutePaths}
        \cup {RuleLine("R-AUTH-001", TRUE), RuleLine("R-AUTH-002", FALSE), ChainLine(1)}
VDSpecDocs == {Missing, Doc({EndpointLine("/health")}), Doc({EndpointLine(p) : p \in RoutePaths})}
VDRuleDocs == {Missing, Doc({RuleHeader("R-AUTH-001", TRUE)})}
VDChainDocs == {Missing, Doc({ChainHeader(1)})}

InitVD ==
    /\ tree \in [Paths -> Files(VDTokens)]
    /\ spec_md \in VDSpecDocs
    /\ rules_md \in VDRuleDocs
    /\ chains_md \in VDChainDocs
    /\ CRIdle
    /\ VDIdle
    /\ CPIdle
    /\ ToolsIdle

NextVD == VDCheck1 \/ VDCheck2 \/ VDCheck3 \/ VDSummary

SpecVD == InitVD /\ [][NextVD]_vars

\* What the checkpoint scripts may find on disk: no checkpoints directory, an
\* empty one, or one that holds a file of another name.
InitCP ==
    /\ now = 0
    /\ progress_md \in CPProgressDocs
    /\ \/ cp_dir = FALSE /\ cp_files = {}
       \/ cp_dir = TRUE /\ cp_files = {}
       \/ cp_dir = TRUE /\ cp_files = {[name |-> NotesName, content |-> <<"notes">>, mtime |-> 0]}
    /\ created = <<>>
    /\ last_create = NoCreate
    /\ rs_out = NoRun
    /\ ConsistencyIdle
    /\ ToolsIdle

NextCP ==
    \/ \E m \in CPMessages : Create(m)
    \/ List
    \/ \E n \in {<<>>} \cup {<<c>> : c \in CPNames} : Restore(n)
    \/ \E d \in CPProgressDocs : EditProgress(d)
    \/ Tick

SpecCP == InitCP /\ [][NextCP]_vars

\* What a bootstrap run may find: every critical file, both binaries and the
\* delegated script are there, or some of BCSample are not; without the
\* backend directory nothing below it is there.
AllRootPaths ==
    {CriticalFiles[i] : i \in 1..Len(CriticalFiles)}
        \cup {Binaries[i] : i \in 1..Len(Binaries)} \cup {BackendDir, VerifyScript}
BelowBackend == {"SpookyID_stack/backend/Cargo.toml", Binaries[1], Binaries[2]}
BCSample == {"multipass/directives/RULES.md", Binaries[1], Binaries[2], BackendDir, VerifyScript}
BCRoots ==
    {AllRootPaths \ (m \cup (IF BackendDir \in m THEN BelowBackend ELSE {})) : m \in SUBSET BCSample}
BCValues == {<<>>, <<"a", "b", "c">>}

InitBC ==
    /\ fix_mode \in BOOLEAN
    /\ root_fs \in BCRoots
    /\ environ \in [{CriticalVars[i] : i \in 1..Len(CriticalVars)} -> BCValues]
    /\ bc_pc = "stage1"
    /\ bc_issues_found = 0
    /\ tool_result = Unchecked
    /\ missing_files = <<>>
    /\ found_vars = <<>>
    /\ missing_vars = <<>>
    /\ missing_bins = <<>>
    /\ build_result = "none"
    /\ docs_result = "none"
    /\ stages_run = {}
    /\ bc_exit = -1
    /\ env_out = EnvNotCalled
    /\ MoreIdle
    /\ ConsistencyIdle
    /\ CPIdle

NextBC == BCStage1 \/ BCStage2 \/ BCStage3 \/ BCStage4 \/ BCBuildEnds \/ BCStage5 \/ BCSummary

SpecBC == InitBC /\ [][NextBC]_vars

\* The steps of the verifier itself are taken when they can be; a process it
\* waits for without a timeout may never end.
BCOwnSteps == BCStage1 \/ BCStage2 \/ BCStage3 \/ BCStage4 \/ BCStage5 \/ BCSummary
SpecBCLive == InitBC /\ [][NextBC]_vars /\ WF_vars(BCOwnSteps)

\* Values of the environment for check_environment_variables: n letters, then
\* m full stops.
MaxLetters == 9
MaxStops == 3
LettersThenStops(n, m) == [i \in 1..(n + m) |-> IF i <= n THEN "a" ELSE "."]
EnvValues == {LettersThenStops(n, m) : n \in 0..MaxLetters, m \in 0..MaxStops}

InitEnv ==
    /\ environ \in {[DATABASE_URL |-> d, SPOOKY_ISSUER |-> <<"a", "b", "c">>,
                     SPOOKY_JWT_SECRET |-> s, SPOOKY_PEPPER |-> p] :
                        d \in BCValues, s \in EnvValues, p \in EnvValues}
    /\ env_out = EnvNotCalled
    /\ MoreIdle
    /\ fix_mode = FALSE
    /\ root_fs = {}
    /\ bc_pc = "stage1"
    /\ bc_issues_found = 0
    /\ tool_result = Unchecked
    /\ missing_files = <<>>
    /\ found_vars = <<>>
    /\ missing_vars = <<>>
    /\ missing_bins = <<>>
    /\ build_result = "none"
    /\ docs_result = "none"
    /\ stages_run = {}
    /\ bc_exit = -1
    /\ ConsistencyIdle
    /\ CPIdle

NextEnv == CallCheckEnvironment

SpecEnv == InitEnv /\ [][NextEnv]_vars

\* Trees for repeated extraction: a rule id may be in both files.
EXTokens == {RuleLine("R-AUTH-001", TRUE), RuleLine("R-AUTH-002", FALSE)}

InitEX ==
    /\ tree \in [Paths -> Files(EXTokens)]
    /\ spec_md = Missing
    /\ rules_md = Missing
    /\ chains_md = Missing
    /\ CRIdle
    /\ VDIdle
    /\ CPIdle
    /\ BCIdle
    /\ env_out = EnvNotCalled
    /\ ex_runs = <<>>
    /\ IACIdle
    /\ MKIdle
    /\ rp_out = RPNotCalled

NextEX == ExtractRun \/ \E p \in Paths : DeleteFile(p)

SpecEX == InitEX /\ [][NextEX]_vars

\* A run of issue_admin_credential.py: no credential file yet.
InitIAC ==
    /\ card_present \in BOOLEAN
    /\ gp_jar \in BOOLEAN
    /\ backend_dir \in BOOLEAN
    /\ out_file = FALSE
    /\ iac_pc = "poll"
    /\ polls = 0
    /\ card_info = FALSE
    /\ signer_calls = <<>>
    /\ iac_exit = -1
    /\ ConsistencyIdle
    /\ CPIdle
    /\ BCIdle
    /\ env_out = EnvNotCalled
    /\ ex_runs = <<>>
    /\ MKIdle
    /\ rp_out = RPNotCalled

NextIAC == IACPoll \/ IACAfterLoop \/ IACSignerEnds \/ MoveCard

SpecIAC == InitIAC /\ [][NextIAC]_vars

\* Two processes start generate_checkpoint; the checkpoints directory is
\* there already or not.
InitMK ==
    /\ now = 0
    /\ progress_md \in CPProgressDocs
    /\ cp_dir \in BOOLEAN
    /\ cp_files = {}
    /\ created = <<>>
    /\ last_create = NoCreate
    /\ rs_out = NoRun
    /\ MKIdle
    /\ ConsistencyIdle
    /\ BCIdle
    /\ env_out = EnvNotCalled
    /\ ex_runs = <<>>
    /\ IACIdle
    /\ rp_out = RPNotCalled

NextMK ==
    \/ \E p \in Procs : PMkdir(p)
    \/ \E p \in Procs : \E m \in CPMessages : PWrite(p, m)
    \/ PTick

SpecMK == InitMK /\ [][NextMK]_vars

\* The documents read_progress_md is called on.
RPDocs ==
    {Missing, Undecodable(ProgressDoc(TRUE, 1, 1, TRUE))}
        \cup {ProgressDoc(bf, nb, nc, closed) :
                bf \in BOOLEAN, nb \in 0..MaxItems, nc \in 0..MaxItems, closed \in BOOLEAN}
        \cup {WithoutPhase(ProgressDoc(bf, nb, nc, closed)) :
                bf \in BOOLEAN, nb \in 0..MaxItems, nc \in 0..MaxItems, closed \in BOOLEAN}

InitRP ==
    /\ progress_md \in RPDocs
    /\ rp_out = RPNotCalled
    /\ now = 0
    /\ cp_dir = FALSE
    /\ cp_files = {}
    /\ created = <<>>
    /\ last_create = NoCreate
    /\ rs_out = NoRun
    /\ ConsistencyIdle
    /\ BCIdle
    /\ env_out = EnvNotCalled
    /\ ex_runs = <<>>
    /\ IACIdle
    /\ MKIdle

NextRP == ReadProgress

SpecRP == InitRP /\ [][NextRP]_vars

\* Checkpoints created over progress documents with one phase line each: any
\* phase number, with or without another phase named in the title, and one
\* whose status is not IN PROGRESS.
NADocs ==
    {Missing}
        \cup {[exists |-> TRUE, lines |-> <<l, HeadingLine("other")>>] :
                l \in {x \in PhaseLines : x.mark = "W"}}
        \cup {[exists |-> TRUE, lines |-> <<PhaseLine(2, "W", "COMPLETE"), HeadingLine("other")>>]}
NAMessages == {<<>>, <<"Chain 9">>}

InitNA ==
    /\ now = 0
    /\ progress_md \in NADocs
    /\ cp_dir \in BOOLEAN
    /\ cp_files = {}
    /\ created = <<>>
    /\ last_create = NoCreate
    /\ rs_out = NoRun
    /\ ConsistencyIdle
    /\ ToolsIdle

NextNA ==
    \/ \E m \in NAMessages : Create(m)
    \/ Tick

SpecNA == InitNA /\ [][NextNA]_vars

(***************************************************************************)
(* Properties of the consistency tools.                                    *)
(***************************************************************************)
Range(s) == {s[i] : i \in 1..Len(s)}

\* What the files that read and decode hold, read off the tree itself.
ReadableFiles(t) == {p \in Paths : t[p].kind = "ok"}
LinesOf(t, ps) == UNION {Range(t[p].lines) : p \in ps}
RuleIdsOf(ls) == {l.rule : l \in {x \in ls : IsRuleLine(x)}}
WordedRuleIdsOf(ls) == {l.rule : l \in {x \in ls : IsRuleLine(x) /\ x.word}}
RoutesOf(ls) == {l.route : l \in {x \in ls : IsRouteLine(x)}}
ChainsOf(ls) == {l.chain : l \in {x \in ls : IsChainLine(x)}}

\* Everything verify_documentation looks for in the readable files is documented.
AllDocumented ==
    /\ RoutesOf(LinesOf(tree, ReadableFiles(tree) \cap {BinPath})) \subseteq extract_spec_endpoints(spec_md)
    /\ WordedRuleIdsOf(LinesOf(tree, ReadableFiles(tree))) \subseteq vd_extract_defined_rules(rules_md)
    /\ \A n \in ChainsOf(LinesOf(tree, ReadableFiles(tree))) : check_chain_documented(n, chains_md)

VDEnded == vd_pc \in {"done", "crashed"}
CREnded == cr_pc \in {"done", "aborted"}

\* C1: verify_documentation ends with exit code 0 if and only if every route,
\* every rule reference and every chain number of the code is documented; in
\* every other case the exit code is not 0.
C1_ExitZeroIffAllDocumented ==
    VDEnded => (vd_exit = 0 <=> AllDocumented)

\* C1, the half that holds on every tree: an exit code of 0 is never given
\* while something the tool looks for is undocumented (no category masks
\* another).
C1_ExitZeroOnlyIfAllDocumented ==
    (VDEnded /\ vd_exit = 0) => AllDocumented

\* C1 on the trees all of whose files read and decode: there the exit code is
\* 0 exactly when everything is documented.
C1_IffWhenEveryFileReads ==
    (VDEnded /\ ReadableFiles(tree) = Present(tree)) => (vd_exit = 0 <=> AllDocumented)

\* C2: check_rules ends with exit code 0 if and only if every rule id of the
\* source tree is a key of the definitions parsed from the rules document, for
\* every tree and every document, also a document that does not exist.
C2_ExitZeroIffAllDefined ==
    CREnded =>
        (cr_exit = 0 <=>
            DOMAIN extract_rules_from_code(tree) \subseteq cr_extract_defined_rules(rules_md))

\* C3: at the end of the verification loop valid_rules and missing_rules
\* partition the referenced rule ids, and an id is valid exactly when the
\* rules document defines it.
C3_ValidMissingPartition ==
    ((cr_pc = "verify" /\ cr_todo = <<>>) \/ cr_pc = "done") =>
        LET referenced == RuleIdsOf(LinesOf(tree, ReadableFiles(tree)))
            valid == Range(valid_rules)
            undefined == Range(missing_rules)
        IN  /\ valid \cup undefined = referenced
            /\ valid \cap undefined = {}
            /\ \A id \in referenced : id \in valid <=> id \in cr_extract_defined_rules(rules_md)
            /\ Len(valid_rules) = Cardinality(valid)
            /\ Len(missing_rules) = Cardinality(undefined)

\* C3's case: a finished run that found a defined and an undefined rule.
C3_Witness ==
    /\ cr_pc = "done"
    /\ valid_rules # <<>>
    /\ missing_rules # <<>>

\* C4: a rules document that does not exist does not abort the run; it counts
\* as no definitions, every referenced rule id is reported as undefined, and
\* the exit code is not 0 when a rule id is referenced.  For both tools.
C4_MissingRulesDocIsNotFatal ==
    ~rules_md.exists =>
        /\ cr_pc # "aborted"
        /\ cr_pc = "done" =>
              /\ Range(missing_rules) = RuleIdsOf(LinesOf(tree, ReadableFiles(tree)))
              /\ missing_rules # <<>> => cr_exit # 0
        /\ (vd_pc = "done" /\ extract_code_rules(tree).val # {}) => vd_exit # 0

\* C5: files that cannot be read or decoded are skipped; every scan still ends
\* and gives the identifiers of the readable files; no run is aborted by one.
C5_BadFilesAreSkipped ==
    /\ vd_pc # "crashed"
    /\ cr_pc \in {"verify", "done"} =>
          DOMAIN code_rules = RuleIdsOf(LinesOf(tree, ReadableFiles(tree)))

\* C15: the endpoint check is one-directional: when it has run, the number of
\* issues it counted is the number of route paths of the code that SPEC.md
\* does not list, whatever else SPEC.md lists; with no .route(...) call in
\* the code it counts none.
C15_EndpointCheckIsOneDirectional ==
    vd_pc = "check2" =>
        LET in_code == RoutesOf(LinesOf(tree, {BinPath} \cap Present(tree)))
            in_spec == {l.endpoint : l \in spec_md.lines}
        IN  /\ issues_found = Cardinality(in_code \ in_spec)
            /\ in_code = {} => issues_found = 0

\* the endpoint check has run on code without a route while SPEC.md lists
\* endpoints
C15_Witness ==
    /\ vd_pc = "check2"
    /\ tree[BinPath].kind = "ok"
    /\ RoutesOf(LinesOf(tree, {BinPath})) = {}
    /\ spec_md.exists
    /\ Cardinality(spec_md.lines) = 2
    /\ issues_found = 0

(***************************************************************************)
(* Properties of the checkpoint store.                                     *)
(***************************************************************************)
\* the file generate_checkpoint wrote last, as it is on disk now
LastCreated == {f \in cp_files : last_create.made /\ f.name = last_create.name}

RECURSIVE Reverse(_)
Reverse(s) == IF s = <<>> THEN <<>> ELSE Append(Reverse(Tail(s)), Head(s))

\* C6: the message round trip: the message read back from a checkpoint by its
\* name is the message the checkpoint was created with, for any message.
C6_MessageRoundTrip ==
    \A f \in LastCreated :
        get_checkpoint_summary(f.content).user_message = last_create.message

\* C7: the state round trip: the phase read back from a stored checkpoint is
\* the phase read_progress_md gave when the checkpoint was created, also after
\* progress.md has changed.  (get_checkpoint_summary reads back the phase
\* only; nothing in the sources reads the two lists back.)
C7_StateRoundTrip ==
    \A f \in LastCreated :
        get_checkpoint_summary(f.content).current_phase = last_create.state.current_phase

\* C8: after checkpoints were created at strictly increasing times, the list
\* holds exactly those checkpoints, the newest first, and restore without a
\* name loads the one created last.
C8_ListNewestFirst ==
    /\ (rs_out.mode = "list" /\ rs_out.exit = 0) =>
          [i \in 1..Len(rs_out.listed) |-> rs_out.listed[i].name] = Reverse(created)
    /\ (rs_out.mode = "list" /\ rs_out.exit # 0) => created = <<>>
    /\ (rs_out.mode = "restore" /\ rs_out.name = <<>> /\ rs_out.exit = 0) =>
          /\ created # <<>>
          /\ Len(rs_out.shown) = 1
          /\ rs_out.shown[1].name = created[Len(created)]

\* C9: the checkpoints directory is append-only: a file that exists is there,
\* with the same content, after every step of create, list and restore.
C9_AppendOnly ==
    [][\A f \in cp_files : f \in cp_files']_vars

\* C10: restore with a name loads the file of that name whenever it exists and
\* fails with exit code 1 when it does not, whatever else the directory holds;
\* restore without a name loads the head of the list.
C10_RestoreByName ==
    /\ (rs_out.mode = "restore" /\ rs_out.name # <<>>) =>
          LET named == {f \in cp_files : f.name = rs_out.name[1]}
          IN  IF named # {}
              THEN rs_out.exit = 0 /\ \A f \in named : rs_out.shown = <<f>>
              ELSE rs_out.exit = 1 /\ rs_out.shown = <<>>
    /\ (rs_out.mode = "restore" /\ rs_out.name = <<>> /\ rs_out.exit = 0) =>
          rs_out.shown = <<list_checkpoints(cp_dir, cp_files)[1]>>

\* C11: a restore run that finds the checkpoints directory absent, or without
\* any checkpoint in it, ends with a non-zero exit code, shows and lists no
\* checkpoint, and leaves the directory and its files as they were.
C11_NoCheckpointsFails ==
    [][(rs_out'.mode # "none" /\ list_checkpoints(cp_dir, cp_files) = <<>>) =>
          /\ rs_out'.exit # 0
          /\ rs_out'.shown = <<>>
          /\ rs_out'.listed = <<>>
          /\ cp_dir' = cp_dir
          /\ cp_files' = cp_files]_vars

\* a restore by name has run on a directory that holds a file but no checkpoint
C11_Witness ==
    /\ rs_out.mode = "restore"
    /\ rs_out.name # <<>>
    /\ cp_dir
    /\ cp_files # {}
    /\ list_checkpoints(cp_dir, cp_files) = <<>>
    /\ rs_out.exit = 1

(***************************************************************************)
(* Properties of the bootstrap verifier.                                   *)
(***************************************************************************)
BCEnded == bc_pc \in {"done", "aborted", "crashed"}
RequiredToolsOk == \A i \in 1..Len(RequiredTools) : tool_result[RequiredTools[i]] = "ok"
NothingMissing ==
    /\ RequiredToolsOk
    /\ \A i \in 1..Len(CriticalFiles) : CriticalFiles[i] \in root_fs
    /\ \A i \in 1..Len(CriticalVars) : environ[CriticalVars[i]] # <<>>
    /\ \E i \in 1..Len(Binaries) : Binaries[i] \in root_fs

\* C12: the exit code is 0 only if no required tool, no critical file, no
\* checked environment variable and no built binary is missing; when one of
\* them is missing the exit code is 1.
C12_ExitZeroOnlyIfNothingMissing ==
    BCEnded => /\ bc_exit = 0 => NothingMissing
               /\ ~NothingMissing => bc_exit = 1

\* C12 without the binaries: the exit code is 0 only if no required tool, no
\* critical file and no checked environment variable is missing.
C12_ExitZeroOnlyIfToolsFilesVars ==
    (BCEnded /\ bc_exit = 0) =>
        /\ RequiredToolsOk
        /\ \A i \in 1..Len(CriticalFiles) : CriticalFiles[i] \in root_fs
        /\ \A i \in 1..Len(CriticalVars) : environ[CriticalVars[i]] # <<>>

\* x is part of text, as a run of neighbouring characters
Appears(x, text) ==
    \E i \in 0..(Len(text) - Len(x)) : SubSeq(text, i + 1, i + Len(x)) = x

\* the entry of the found list for the variable v
EntryOf(found, v) == {found[i] : i \in {j \in 1..Len(found) : found[j][1] = v}}

\* C13: a set variable with SECRET, PEPPER or PASSWORD in its name is shown
\* as its first 8 characters and "...", and its full value is nowhere in its
\* entry of the found list (which is what main prints).
C13_SensitiveValuesAreMasked ==
    env_out.called =>
        \A i \in 1..Len(CriticalVars) :
            LET v == CriticalVars[i]
                value == environ[v]
                first8 == SubSeq(value, 1, IF Len(value) < MaskLen THEN Len(value) ELSE MaskLen)
            IN  (IsSensitive(v) /\ value # <<>>) =>
                    /\ EntryOf(env_out.found, v) = {<<v, "=">> \o first8 \o Dots}
                    /\ \A e \in EntryOf(env_out.found, v) : ~Appears(value, e)

\* C13, the second half alone: the full value of a sensitive variable is
\* nowhere in its entry.
C13_FullValueNeverShown ==
    env_out.called =>
        \A i \in 1..Len(CriticalVars) :
            LET v == CriticalVars[i]
            IN  (IsSensitive(v) /\ environ[v] # <<>>) =>
                    \A e \in EntryOf(env_out.found, v) : ~Appears(environ[v], e)

\* C13 for values of more than 8 characters: the entry is the first 8
\* characters and "...".
C13_LongValuesShowEightCharacters ==
    env_out.called =>
        \A i \in 1..Len(CriticalVars) :
            LET v == CriticalVars[i]
            IN  (IsSensitive(v) /\ Len(environ[v]) > MaskLen) =>
                    EntryOf(env_out.found, v) = {<<v, "=">> \o SubSeq(environ[v], 1, MaskLen) \o Dots}

\* C14: every run of the verifier ends with an exit code, also when a process
\* it started never finishes.
C14_EveryRunEnds == <>BCEnded

\* C14 without --fix: every run ends.
C14_EveryRunWithoutFixEnds == (~fix_mode) => <>BCEnded

\* C18: when a required tool is missing the run returns 1 right after stage 1
\* and no later stage is executed; when only docker fails the run goes on.
C18_MissingToolAbortsAfterStage1 ==
    bc_pc # "stage1" =>
        IF RequiredToolsOk
        THEN bc_pc # "aborted" /\ 1 \in stages_run
        ELSE /\ bc_pc = "aborted"
             /\ bc_exit = 1
             /\ stages_run = {1}
             /\ missing_files = <<>> /\ found_vars = <<>> /\ missing_vars = <<>>
             /\ missing_bins = <<>> /\ build_result = "none" /\ docs_result = "none"

\* node was not found, docker answered, and the run has ended
C18_Witness ==
    /\ bc_pc = "aborted"
    /\ tool_result["node"] = "notfound"
    /\ tool_result["docker"] = "ok"

IACEnded == iac_pc \in {"done", "exited"}
SignerInvoked == signer_calls # <<>>

\* what C17 says of the polling and of the signing command
PollThenSign ==
    /\ polls <= MaxPolls
    /\ iac_pc = "poll" => ~card_info
    /\ SignerInvoked => card_info
    /\ (iac_pc \in {"after_loop", "signing", "done"} /\ ~card_info) => polls = MaxPolls
    /\ (IACEnded /\ ~card_info) => (iac_exit = 1 /\ ~SignerInvoked /\ ~out_file)

C19_ExistingDirectoryIsSuccess ==
    /\ \A p \in Procs : mk_pc[p] # "failed"
    /\ \A p \in Procs : mk_pc[p] \in {"write", "done"} => cp_dir
    /\ Len(created) = Cardinality({p \in Procs : mk_pc[p] = "done"})
    /\ \A i \in 1..Len(created) : \E f \in cp_files : f.name = created[i]

\* one process made the directory, the other found it made, both have written
C19_Witness ==
    /\ \A p \in Procs : mk_pc[p] = "done"
    /\ \E p \in Procs : \E q \in Procs : mk_exists[p] /\ ~mk_exists[q]
    /\ Len(created) = 2

(***************************************************************************)
(* Properties of the progress state reader.                                *)
(***************************************************************************)
\* the lines below the first heading h, up to the next line that starts
\* with ## or to the end of the document
LinesUnder(ls, h) ==
    LET starts == {i \in 1..Len(ls) : ls[i] = HeadingLine(h)}
        i == Min(starts)
        ends == {j \in (i + 1)..Len(ls) : StartsWithHashes(ls[j])}
    IN  IF starts = {} THEN <<>>
        ELSE SubSeq(ls, i + 1, IF ends = {} THEN Len(ls) ELSE Min(ends) - 1)
FirstFive(s) == SubSeq(s, 1, IF Len(s) < 5 THEN Len(s) ELSE 5)
BlockersUnder(ls) ==
    LET items == SelectSeq(LinesUnder(ls, "blockers"), IsBlockerLine)
    IN  [k \in 1..Len(items) |-> items[k].blocker]
CompletionsUnder(ls) ==
    LET items == SelectSeq(LinesUnder(ls, "completions"), IsCompletionLine)
    IN  [k \in 1..Len(items) |-> items[k].completion]

\* C20: active_blockers is the first min(k, 5) of the k items under the
\* blockers section and recent_completions the first min(k, 5) of the items
\* under the recent-completions section, in document order, wherever the
\* section is, also when it is the last one.
C20_FirstFiveOfEachSection ==
    (rp_out.called /\ progress_md.exists) =>
        /\ rp_out.state.active_blockers = FirstFive(BlockersUnder(progress_md.lines))
        /\ rp_out.state.recent_completions = FirstFive(CompletionsUnder(progress_md.lines))
        /\ Len(rp_out.state.active_blockers) <= 5
        /\ Len(rp_out.state.recent_completions) <= 5

\* C20 for the documents that decode and in which a line starting with ##
\* follows the last of the two sections.
C20_FirstFiveWhenAHeadingFollows ==
    (rp_out.called /\ ~rp_out.raised /\ progress_md.exists
        /\ progress_md.lines[Len(progress_md.lines)] = HeadingLine("other")) =>
        /\ rp_out.state.active_blockers = FirstFive(BlockersUnder(progress_md.lines))
        /\ rp_out.state.recent_completions = FirstFive(CompletionsUnder(progress_md.lines))

\* what the document itself holds, whatever the reader makes of it
HasPhase(ls) == \E i \in 1..Len(ls) : PhaseMatches(ls[i])
FirstPhase(ls) == ls[Min({i \in 1..Len(ls) : PhaseMatches(ls[i])})]
HasSection(ls, h) == \E i \in 1..Len(ls) : ls[i] = HeadingLine(h)
\* the heading h is there and a later line starts with ##
HasClosedSection(ls, h) ==
    \E i \in 1..Len(ls) : \E j \in 1..Len(ls) :
        ls[i] = HeadingLine(h) /\ i < j /\ StartsWithHashes(ls[j])

\* C21: the reader never fails: for every progress document, and for none,
\* it returns a state; a field whose part of the document is not there is
\* empty (empty phase, empty lists) and the other fields are what the
\* document holds.
C21_ReaderNeverFails ==
    rp_out.called =>
        /\ ~rp_out.raised
        /\ LET ls == IF progress_md.exists THEN progress_md.lines ELSE <<>>
               state == rp_out.state
           IN  /\ state.current_phase = IF HasPhase(ls) THEN <<PhaseText(FirstPhase(ls))>> ELSE <<>>
               /\ state.active_blockers =
                     IF HasSection(ls, "blockers") THEN FirstFive(BlockersUnder(ls)) ELSE <<>>
               /\ state.recent_completions =
                     IF HasSection(ls, "completions") THEN FirstFive(CompletionsUnder(ls)) ELSE <<>>

\* C21 as the code has it: for a document that decodes, and for none, the
\* reader returns a state; the phase is "Unknown" when no phase line matches,
\* a list is empty when its heading is missing or no line starting with ##
\* follows it, and the other fields are what the document holds.
C21_DefaultsForUnmatchedFields ==
    (rp_out.called /\ ~IsUndecodable(progress_md)) =>
        /\ ~rp_out.raised
        /\ LET ls == IF progress_md.exists THEN progress_md.lines ELSE <<>>
               state == rp_out.state
           IN  /\ state.current_phase =
                     IF HasPhase(ls) THEN <<PhaseText(FirstPhase(ls))>> ELSE <<"Unknown">>
               /\ state.active_blockers =
                     IF HasClosedSection(ls, "blockers") THEN FirstFive(BlockersUnder(ls)) ELSE <<>>
               /\ state.recent_completions =
                     IF HasClosedSection(ls, "completions") THEN FirstFive(CompletionsUnder(ls)) ELSE <<>>

\* C21, the first half alone: the reader returns a state for every document.
C21_ReaderAlwaysReturns == rp_out.called => ~rp_out.raised

(***************************************************************************)
(* Properties of the Next Actions block.                                   *)
(***************************************************************************)
\* what stands between "Based on current state:" and the rule before
\* "## Critical Reminders"
NextActionsBlock(content) ==
    LET i == Max({k \in 1..Len(content) : content[k] = "Based on current state:"})
        j == Max({k \in 1..Len(content) : content[k] = "## Critical Reminders"})
    IN  SubSeq(content, i + 3, j - 5)

\* the rule table: keyword "Phase k" -> suggestion list, in order
RuleTable ==
    <<[keyword |-> 2, actions |-> Phase2Actions], [keyword |-> 3, actions |-> Phase3Actions]>>

\* the list of the first rule whose keyword is part of the text, the generic
\* list when there is none ("Unknown" holds no keyword)
ChosenByTable(current_phase) ==
    LET lines == {l \in PhaseLines : current_phase = <<PhaseText(l)>>}
        hits == {r \in 1..Len(RuleTable) : \E l \in lines : InPhaseText(RuleTable[r].keyword, l)}
    IN  IF hits = {} THEN GenericActions ELSE RuleTable[Min(hits)].actions

\* the phase keywords that have a list of their own
KeyedPhases ==
    {k \in 1..9 : NextActions(<<PhaseText(PhaseLine(k, "W", "IN PROGRESS"))>>) # GenericActions}

\* C22 as stated: the block of a created checkpoint is exactly one list, that
\* of the first keyword of the rule table that is part of current_phase or
\* the generic one, and the table has three phase keywords.
C22_FirstOfThreeKeywords ==
    /\ \A f \in LastCreated :
          NextActionsBlock(f.content) = ChosenByTable(last_create.state.current_phase)
    /\ Cardinality(KeyedPhases) = 3

\* C22 with the two keywords the table has, "Phase 2" and "Phase 3": the
\* block of a created checkpoint is exactly one list, that of the first
\* keyword that is part of current_phase, or the generic one.
C22_FirstOfTwoKeywords ==
    /\ \A f \in LastCreated :
          NextActionsBlock(f.content) = ChosenByTable(last_create.state.current_phase)
    /\ KeyedPhases = {RuleTable[r].keyword : r \in 1..Len(RuleTable)}

\* a checkpoint was created while the phase line named Phase 3 first and
\* Phase 2 after it, and its block is the list of Phase 2
C22_Witness ==
    /\ last_create.made
    /\ last_create.state.current_phase = <<PhaseText(TitledPhaseLine(3, 2, "W", "IN PROGRESS"))>>
    /\ \E f \in LastCreated : NextActionsBlock(f.content) = Phase2Actions

(***************************************************************************)
(* Properties of the fifth stage of the bootstrap verifier.                *)
(***************************************************************************)
\* the exit code that the results of stages 1 to 4 give: 0 when every
\* required tool answered, no critical file and no variable is missing and
\* no build has failed
ExitOfStages1To4 ==
    IF RequiredToolsOk /\ missing_files = <<>> /\ missing_vars = <<>> /\ build_result # "failed"
    THEN 0 ELSE 1

\* C23: whatever the delegated documentation check does (exit 0, another
\* exit code, timeout, no start, or skipped for want of the script), the run
\* goes on to the summary and returns the exit code that stages 1 to 4 give.
C23_ExitIgnoresStage5 ==
    /\ 5 \in stages_run =>
          /\ bc_pc \in {"summary", "done"}
          /\ docs_result \in DocsOutcomes \cup {"skipped"}
          /\ docs_result = "skipped" <=> VerifyScript \notin root_fs
    /\ bc_pc = "done" => (5 \in stages_run /\ bc_exit = ExitOfStages1To4)

\* the delegated check timed out and the run returned 0
C23_Witness ==
    /\ bc_pc = "done"
    /\ docs_result = "timeout"
    /\ bc_exit = 0

====
